---- MODULE Spec2Model ----
(***************************************************************************)
(* A model of the job-bookings pipeline of script.js: the field            *)
(* interpreters (parseMoney, parsePaidHours, parseDateSmart, getMonday),   *)
(* the header canonicaliser (toCanonical, mapHeadersOnRows), the ragged-   *)
(* row recovery of loadCSV, the record processor (processData), the        *)
(* aggregates of renderDashboard (summary, weekly, monthly and daily       *)
(* revenue, top employees, hourly and per-job performance) and the run of  *)
(* init over them.                                                         *)
(*                                                                         *)
(* Text is a sequence of one-character strings, so that scanning,          *)
(* trimming, lower-casing and splitting are computed, not assumed.         *)
(* Numbers read from text are held as integers scaled by Scale (a decimal  *)
(* fixed point); JavaScript's doubles are taken as exact on these values.  *)
(* A JavaScript object literal is a function from its own keys to values   *)
(* together with the keys it inherits from Object.prototype.               *)
(***************************************************************************)
EXTENDS Integers, Sequences, FiniteSets, TLC

VARIABLES
    pc,            \* position of the run being modelled
    hoursText,     \* parsePaidHours: the argument str
    hoursResult,   \* parsePaidHours: the value returned
    mondayGiven,   \* getMonday: the time value of d when the call is made
    mondayArg,     \* getMonday: the Date object d, as the call leaves it
    mondayResult,  \* getMonday: the Date returned
    headerBase,    \* the word the header was written from (<<>>: from none)
    header,        \* toCanonical: the header string
    canon1,        \* toCanonical(header)
    canon2,        \* toCanonical(toCanonical(header))
    file,          \* loadCSV: what the fetch and the parser give for the file
    loaded,        \* loadCSV: what it returned and what it showed
    csvRows,       \* processData: the canonical rows handed in
    data,          \* processData: the value returned
    hourly,        \* renderBestHourly: the hourlyPerformance list
    dashboard,     \* renderDashboard: what its renderers put on the page
    perm,          \* another order of the processed jobs (a permutation)
    permuted       \* renderDashboard on the jobs in that other order

vars == <<pc, hoursText, hoursResult, mondayGiven, mondayArg, mondayResult, headerBase, header,
          canon1, canon2, file, loaded, csvRows, data, hourly, dashboard, perm, permuted>>

----------------------------------------------------------------------------
(* Bounds of the model *)

\* longest text handed to parsePaidHours
MaxTextLen == 4

\* number of consecutive days, from FirstDay on, handed to getMonday
MaxDays == 100

\* longest header written freely (not from a word) handed to toCanonical
MaxHeaderLen == 3

\* most names in the Employees cell of the row whose payouts are allocated
MaxEmployees == 3

\* most rows handed to processData when the Date cells vary
MaxRows == 3

\* most cells in a line of the file, and most lines after its header line
MaxCols == 3
MaxBody == 3

\* most rows, and most names in a row, handed on to renderBestHourly
MaxJobs == 3
MaxListed == 2

\* most jobs handed on to renderDashboard
MaxDashboardJobs == 3

----------------------------------------------------------------------------
(* Text *)

\* the byte-order mark U+FEFF, one character
BOM == "\\uFEFF"

Digits == {"0", "1", "2", "3", "4", "5", "6", "7", "8", "9"}

DigitVal(c) ==
    CASE c = "0" -> 0 [] c = "1" -> 1 [] c = "2" -> 2 [] c = "3" -> 3
      [] c = "4" -> 4 [] c = "5" -> 5 [] c = "6" -> 6 [] c = "7" -> 7
      [] c = "8" -> 8 [] c = "9" -> 9

\* what the regular expression class \s and String.prototype.trim take as
\* white space (U+FEFF is white space to both)
WhiteSpace == {" ", "\t", BOM}

RECURSIVE Pow10(_)
Pow10(n) == IF n = 0 THEN 1 ELSE 10 * Pow10(n - 1)

\* fixed point: a number n is held as n * Scale; no text of the model has
\* more than MaxTextLen fraction digits
Scale == Pow10(MaxTextLen)

\* the index after the longest run of digits starting at i (\d+, greedy)
RECURSIVE DigitsEnd(_, _)
DigitsEnd(s, i) ==
    IF i <= Len(s) /\ s[i] \in Digits THEN DigitsEnd(s, i + 1) ELSE i

\* the index after the match of \d+(?:\.\d+)? starting at i (i when s[i] is
\* no digit)
NumberEnd(s, i) ==
    LET e == DigitsEnd(s, i) IN
    IF e > i /\ e + 1 <= Len(s) /\ s[e] = "." /\ s[e + 1] \in Digits
    THEN DigitsEnd(s, e + 1)
    ELSE e

\* the index after a run of white space starting at i (\s*, greedy)
RECURSIVE SpacesEnd(_, _)
SpacesEnd(s, i) ==
    IF i <= Len(s) /\ s[i] \in WhiteSpace THEN SpacesEnd(s, i + 1) ELSE i

\* the value of the digits s[i..e-1]
RECURSIVE DigitsValue(_, _, _)
DigitsValue(s, i, e) ==
    IF e <= i THEN 0 ELSE 10 * DigitsValue(s, i, e - 1) + DigitVal(s[e - 1])

\* parseFloat of the numeral s[i..e-1] (digits, optional fraction), scaled
ParseFloat(s, i, e) ==
    LET d == DigitsEnd(s, i) IN
    IF d = e
    THEN DigitsValue(s, i, d) * Scale
    ELSE DigitsValue(s, i, d) * Scale
         + (DigitsValue(s, d + 1, e) * Scale) \div Pow10(e - d - 1)

\* JavaScript's null, and a number, as one kind of value
Null == [present |-> FALSE, v |-> 0]
Num(n) == [present |-> TRUE, v |-> n]

----------------------------------------------------------------------------
(* parsePaidHours *)

\* the suffix (?:H|hours?) under the flag i: its first alternative takes
\* any "H" or "h", so the second never decides a match
HourSuffix == {"H", "h"}

\* where the match of (\d+(?:\.\d+)?)\s*(?:H|hours?) starting at i ends, or 0
\* when there is none. Backtracking finds nothing the greedy match misses:
\* a shorter digit run is followed by a digit, and a dropped fraction by "."
SuffixedEnd(s, i) ==
    LET e == NumberEnd(s, i)
        h == SpacesEnd(s, e)
    IN IF e > i /\ h <= Len(s) /\ s[h] \in HourSuffix THEN h + 1 ELSE 0

\* the loop over str.matchAll(...): the sum of the captured numbers of the
\* successive matches from i on
RECURSIVE SumSuffixedFrom(_, _)
SumSuffixedFrom(s, i) ==
    IF i > Len(s) THEN 0
    ELSE IF SuffixedEnd(s, i) # 0
         THEN ParseFloat(s, i, NumberEnd(s, i))
              + SumSuffixedFrom(s, SuffixedEnd(s, i))
         ELSE SumSuffixedFrom(s, i + 1)

\* str.match(/(\d+(?:\.\d+)?)/g)[0]: where the first numeral starts, or 0
RECURSIVE FirstDigitFrom(_, _)
FirstDigitFrom(s, i) ==
    IF i > Len(s) THEN 0
    ELSE IF s[i] \in Digits THEN i ELSE FirstDigitFrom(s, i + 1)

FirstNumber(s) ==
    LET i == FirstDigitFrom(s, 1) IN
    IF i = 0 THEN 0 ELSE ParseFloat(s, i, NumberEnd(s, i))

parsePaidHours(str) ==
    LET summed == SumSuffixedFrom(str, 1)
        totalHours == IF summed = 0 THEN FirstNumber(str) ELSE summed
    IN IF totalHours > 0 THEN Num(totalHours) ELSE Null

----------------------------------------------------------------------------
(* Date: a time value is held in minutes since 1970-01-01T00:00:00Z (the     *)
(* milliseconds of JavaScript, at a grain that fits the checker's integers) *)

TicksPerDay == 24 * 60

\* the day number (days since 1970-01-01) of a time value, and its time of day
DayOf(t) == t \div TicksPerDay
TickOfDay(t) == t % TicksPerDay

\* the day number of the civil date y-m-d of the proleptic Gregorian calendar
DaysFromCivil(y, m, d) ==
    LET yy  == IF m <= 2 THEN y - 1 ELSE y
        era == yy \div 400
        yoe == yy - era * 400
        mp  == IF m > 2 THEN m - 3 ELSE m + 9
        doy == (153 * mp + 2) \div 5 + d - 1
        doe == yoe * 365 + yoe \div 4 - yoe \div 100 + doy
    IN era * 146097 + doe - 719468

\* the civil date of a day number
CivilFromDays(z) ==
    LET zz  == z + 719468
        era == zz \div 146097
        doe == zz - era * 146097
        yoe == (doe - doe \div 1460 + doe \div 36524 - doe \div 146096) \div 365
        doy == doe - (365 * yoe + yoe \div 4 - yoe \div 100)
        mp  == (5 * doy + 2) \div 153
        d   == doy - (153 * mp + 2) \div 5 + 1
        m   == IF mp < 10 THEN mp + 3 ELSE mp - 9
    IN [year |-> yoe + era * 400 + (IF m <= 2 THEN 1 ELSE 0), month |-> m, day |-> d]

\* Date.prototype.getUTCDay: 0 is Sunday; 1970-01-01 was a Thursday
getUTCDay(t) == (DayOf(t) + 4) % 7

getUTCDate(t) == CivilFromDays(DayOf(t)).day
getUTCMonth(t) == CivilFromDays(DayOf(t)).month - 1
getUTCFullYear(t) == CivilFromDays(DayOf(t)).year

\* Date.UTC(year, monthIndex, day): months and days outside their range carry
\* over; a year of 0..99 stands for 1900 + year
DateUTC(year, monthIndex, day) ==
    LET y      == IF year \in 0..99 THEN 1900 + year ELSE year
        months == y * 12 + monthIndex
    IN (DaysFromCivil(months \div 12, (months % 12) + 1, 1) + day - 1) * TicksPerDay

\* Date.prototype.setUTCDate(n): day n of the month t is in (n < 1 and n past
\* the month's end carry into the neighbouring months), time of day kept
setUTCDate(t, n) ==
    LET c == CivilFromDays(DayOf(t)) IN
    (DaysFromCivil(c.year, c.month, 1) + n - 1) * TicksPerDay + TickOfDay(t)

----------------------------------------------------------------------------
(* getMonday *)

\* getMonday with the Sunday case forgotten: Sunday counts as day 0 of the
\* week that starts the next day
getMondaySundayForgotten(d) ==
    LET date == d
        day  == getUTCDay(date)
        diff == getUTCDate(date) - day + 1
    IN [returned |-> setUTCDate(date, diff), d |-> d]

\* the Date returned, and the time value the argument d holds after the call
\* (the function works on a copy, new Date(d.valueOf()))
getMonday(d) ==
    LET date == d
        day  == getUTCDay(date)
        diff == getUTCDate(date) - day + (IF day = 0 THEN -6 ELSE 1)
    IN [returned |-> setUTCDate(date, diff), d |-> d]

----------------------------------------------------------------------------
(* toCanonical *)

UpperCase == <<"A", "B", "C", "D", "E", "F", "G", "H", "I", "J", "K", "L", "M",
               "N", "O", "P", "Q", "R", "S", "T", "U", "V", "W", "X", "Y", "Z">>
LowerCase == <<"a", "b", "c", "d", "e", "f", "g", "h", "i", "j", "k", "l", "m",
               "n", "o", "p", "q", "r", "s", "t", "u", "v", "w", "x", "y", "z">>

Range(f) == {f[i] : i \in DOMAIN f}

\* String.prototype.toLowerCase, on the letters A..Z
LowerChar(c) ==
    IF c \in Range(UpperCase)
    THEN LowerCase[CHOOSE i \in DOMAIN UpperCase : UpperCase[i] = c]
    ELSE c
toLowerCase(s) == [i \in DOMAIN s |-> LowerChar(s[i])]

UpperChar(c) ==
    IF c \in Range(LowerCase)
    THEN UpperCase[CHOOSE i \in DOMAIN LowerCase : LowerCase[i] = c]
    ELSE c

\* s.replace(/^\uFEFF/, '')
StripBOM(s) == IF Len(s) > 0 /\ s[1] = BOM THEN Tail(s) ELSE s

\* String.prototype.trim: white space off both ends
RECURSIVE TrimStart(_)
TrimStart(s) ==
    IF Len(s) > 0 /\ s[1] \in WhiteSpace THEN TrimStart(Tail(s)) ELSE s
RECURSIVE TrimEnd(_)
TrimEnd(s) ==
    IF Len(s) > 0 /\ s[Len(s)] \in WhiteSpace
    THEN TrimEnd(SubSeq(s, 1, Len(s) - 1))
    ELSE s
Trim(s) == TrimEnd(TrimStart(s))

\* s.replace(/[...]+/g, ' ') for the class of characters hit: every longest
\* run of characters of the class becomes one space
RECURSIVE ReplaceRunsFrom(_, _, _)
ReplaceRunsFrom(s, hit, i) ==
    IF i > Len(s) THEN <<>>
    ELSE IF s[i] \in hit
         THEN IF i > 1 /\ s[i - 1] \in hit
              THEN ReplaceRunsFrom(s, hit, i + 1)
              ELSE <<" ">> \o ReplaceRunsFrom(s, hit, i + 1)
         ELSE <<s[i]>> \o ReplaceRunsFrom(s, hit, i + 1)
ReplaceRuns(s, hit) == ReplaceRunsFrom(s, hit, 1)

\* the class [a-z0-9 ]
AlnumSpace == Range(LowerCase) \cup Digits \cup {" "}

\* the characters of s the class [^a-z0-9 ] hits
NotAlnumSpace(s) == Range(s) \ AlnumSpace

FieldDate == <<"D", "a", "t", "e">>
FieldBookingName == <<"B", "o", "o", "k", "i", "n", "g", " ", "N", "a", "m", "e">>
FieldEmployees == <<"E", "m", "p", "l", "o", "y", "e", "e", "s">>
FieldCost == <<"C", "o", "s", "t">>
FieldHoursPaidOut == <<"H", "o", "u", "r", "s", " ", "P", "a", "i", "d", " ", "O", "u", "t">>

\* the object literal map of toCanonical: its own keys and their values
SynonymKeys == <<<<"d", "a", "t", "e">>,
                 <<"b", "o", "o", "k", "i", "n", "g", " ", "n", "a", "m", "e">>,
                 <<"b", "o", "o", "k", "i", "n", "g">>,
                 <<"n", "a", "m", "e">>,
                 <<"e", "m", "p", "l", "o", "y", "e", "e", "s">>,
                 <<"e", "m", "p", "l", "o", "y", "e", "e", " ", "s">>,
                 <<"s", "t", "a", "f", "f">>,
                 <<"c", "o", "s", "t">>,
                 <<"a", "m", "o", "u", "n", "t">>,
                 <<"v", "a", "l", "u", "e">>,
                 <<"h", "o", "u", "r", "s", " ", "p", "a", "i", "d", " ", "o", "u", "t">>,
                 <<"h", "o", "u", "r", "s">>,
                 <<"p", "a", "i", "d", " ", "h", "o", "u", "r", "s">>>>
SynonymValues == <<FieldDate, FieldBookingName, FieldBookingName, FieldBookingName, FieldEmployees, FieldEmployees, FieldEmployees, FieldCost, FieldCost, FieldCost, FieldHoursPaidOut, FieldHoursPaidOut, FieldHoursPaidOut>>

\* Object.prototype.constructor, the function Object: what a plain object
\* gives for the key "constructor" when it has no such key of its own
ObjectFunction == <<"function Object() { [native code] }">>

\* the keys every plain object inherits from Object.prototype whose value is
\* a function (truthy)
InheritedFunctionKeys ==
    {<<"c", "o", "n", "s", "t", "r", "u", "c", "t", "o", "r">>,
     <<"t", "o", "S", "t", "r", "i", "n", "g">>,
     <<"v", "a", "l", "u", "e", "O", "f">>}

\* the key __proto__: reading it gives Object.prototype (truthy); assigning a
\* string or a number to it changes nothing and makes no key
ProtoKey == <<"_", "_", "p", "r", "o", "t", "o", "_", "_">>

\* typeof key === 'string'
IsString(v) == v # ObjectFunction

\* the normalised form toCanonical looks up
Normalise(k) ==
    LET lower     == toLowerCase(k)
        spaced    == ReplaceRuns(lower, NotAlnumSpace(lower))
        collapsed == ReplaceRuns(spaced, WhiteSpace)
    IN Trim(collapsed)

\* map[norm] || k
LookupOr(norm, k) ==
    IF norm \in Range(SynonymKeys)
    THEN SynonymValues[CHOOSE i \in DOMAIN SynonymKeys : SynonymKeys[i] = norm]
    ELSE IF norm \in InheritedFunctionKeys THEN ObjectFunction
    ELSE k

\* toCanonical looking up the lower-cased header as it stands, punctuation
\* and doubled spaces kept
toCanonicalPunctuationKept(key) ==
    IF ~IsString(key) THEN key
    ELSE LET k == Trim(StripBOM(key)) IN LookupOr(toLowerCase(k), k)

toCanonical(key) ==
    IF ~IsString(key) THEN key
    ELSE LET k == Trim(StripBOM(key)) IN LookupOr(Normalise(k), k)

----------------------------------------------------------------------------
(* loadCSV: objects, and what Papa.parse gives *)

\* A row object, as the sequence of its own entries in the order its keys
\* were made. obj[k] = v with v a string: an own key, but for __proto__,
\* whose setter takes no string
SetKey(obj, k, v) ==
    IF k = ProtoKey THEN obj
    ELSE IF \E i \in DOMAIN obj : obj[i].k = k
    THEN [i \in DOMAIN obj |-> IF obj[i].k = k THEN [k |-> k, v |-> v] ELSE obj[i]]
    ELSE Append(obj, [k |-> k, v |-> v])

\* Object.keys(obj)
KeysOf(obj) == {obj[i].k : i \in DOMAIN obj}

\* field in row: an own key, or one inherited from Object.prototype
HasField(obj, field) ==
    field \in KeysOf(obj) \cup InheritedFunctionKeys \cup {ProtoKey}

\* r.some(c => String(c || '').trim().length > 0)
SomeCellFilled(r) == \E i \in DOMAIN r : Trim(r[i]) # <<>>

\* the entries of a parser error this program reads
FieldMismatch(code, row) == [type |-> "FieldMismatch", code |-> code, row |-> row]

\* Papa.parse(txt, {header: true, skipEmptyLines: 'greedy'}) for a text whose
\* lines split into the cells rows: lines with no filled cell are skipped,
\* the first line left names the fields, every later line becomes an object
\* of the fields it has cells for, and a line with fewer or more cells than
\* there are fields is reported as TooFewFields or TooManyFields (its extra
\* cells are kept under __parsed_extra)
ParsedExtra == <<"_", "_", "p", "a", "r", "s", "e", "d", "_", "e", "x", "t", "r", "a">>

RECURSIVE ZipFields(_, _, _, _)
ZipFields(obj, fields, cells, i) ==
    IF i > Len(fields) \/ i > Len(cells) THEN obj
    ELSE ZipFields(SetKey(obj, fields[i], cells[i]), fields, cells, i + 1)

HeaderObject(fields, cells) ==
    LET zipped == ZipFields(<<>>, fields, cells, 1) IN
    IF Len(cells) > Len(fields)
    THEN SetKey(zipped, ParsedExtra, <<>>)
    ELSE zipped

ParseWithHeader(rows) ==
    LET lines  == SelectSeq(rows, SomeCellFilled)
        fields == IF lines = <<>> THEN <<>> ELSE Head(lines)
        body   == IF lines = <<>> THEN <<>> ELSE Tail(lines)
        bad    == SelectSeq([i \in DOMAIN body |-> i],
                            LAMBDA i : Len(body[i]) # Len(fields))
    IN [data   |-> [i \in DOMAIN body |-> HeaderObject(fields, body[i])],
        errors |-> [n \in DOMAIN bad |->
                       FieldMismatch(IF Len(body[bad[n]]) < Len(fields)
                                     THEN "TooFewFields" ELSE "TooManyFields",
                                     bad[n] - 1)]]

\* Papa.parse(txt, {header: false, skipEmptyLines: 'greedy'}): the lines that
\* have a filled cell, as arrays; no field count to mismatch
ParseAsArrays(rows) == [data |-> SelectSeq(rows, SomeCellFilled), errors |-> <<>>]

----------------------------------------------------------------------------
(* loadCSV *)

\* the decimal numeral of a positive integer
RECURSIVE NumberText(_)
NumberText(n) ==
    LET last == CHOOSE c \in Digits : DigitVal(c) = n % 10 IN
    IF n < 10 THEN <<last>> ELSE NumberText(n \div 10) \o <<last>>

Col == <<"C", "o", "l">>

\* the number of body rows of length len
CountOfLength(bodyRows, len) ==
    Cardinality({i \in DOMAIN bodyRows : Len(bodyRows[i]) = len})

\* lines 181-184: counts has one key for each length met; Object.entries
\* lists such integer keys in ascending order and the sort by frequency is
\* stable, so of the most frequent lengths the least comes first
dominantLenOf(bodyRows, headerRow) ==
    LET lengths == {Len(bodyRows[i]) : i \in DOMAIN bodyRows} IN
    IF lengths = {} THEN Len(headerRow)
    ELSE CHOOSE len \in lengths :
            \A other \in lengths :
                \/ CountOfLength(bodyRows, len) > CountOfLength(bodyRows, other)
                \/ /\ CountOfLength(bodyRows, len) = CountOfLength(bodyRows, other)
                   /\ len <= other

\* lines 187-189: the header cut or padded to the dominant length
RECURSIVE PadHeader(_, _)
PadHeader(headerRow, dominantLen) ==
    IF Len(headerRow) >= dominantLen THEN headerRow
    ELSE PadHeader(Append(headerRow, Col \o NumberText(Len(headerRow) + 1)), dominantLen)

adjustedHeader(headerRow, dominantLen) ==
    IF Len(headerRow) > dominantLen
    THEN SubSeq(headerRow, 1, dominantLen)
    ELSE PadHeader(headerRow, dominantLen)

\* the row cut to the dominant length and, when shorter, left as short as it is
adjustedRowNotPadded(r, dominantLen) ==
    SubSeq(r, 1, IF Len(r) < dominantLen THEN Len(r) ELSE dominantLen)

\* lines 192-193: the row cut or padded with '' to the dominant length
RECURSIVE PadRow(_, _)
PadRow(rowArr, dominantLen) ==
    IF Len(rowArr) >= dominantLen THEN rowArr
    ELSE PadRow(Append(rowArr, <<>>), dominantLen)

adjustedRow(r, dominantLen) ==
    PadRow(SubSeq(r, 1, IF Len(r) < dominantLen THEN Len(r) ELSE dominantLen), dominantLen)

\* lines 174-197: the rows rebuilt from the arrays of the second parse
recoveredRows(arrayData) ==
    LET filled      == SelectSeq(arrayData, SomeCellFilled)
        headerRow   == IF filled = <<>> THEN <<>>
                       ELSE [i \in DOMAIN Head(filled) |-> Trim(Head(filled)[i])]
        bodyRows    == IF filled = <<>> THEN <<>> ELSE Tail(filled)
        dominantLen == dominantLenOf(bodyRows, headerRow)
        names       == adjustedHeader(headerRow, dominantLen)
    IN [headerRow |-> names,
        rows |-> [i \in DOMAIN bodyRows |->
                    ZipFields(<<>>, names, adjustedRow(bodyRows[i], dominantLen), 1)]]

\* mapHeadersOnRows: every key of every row through toCanonical, a later
\* entry taking the place of an earlier one of the same canonical key
RECURSIVE CanonicalEntries(_, _, _)
CanonicalEntries(out, r, i) ==
    IF i > Len(r) THEN out
    ELSE CanonicalEntries(SetKey(out, toCanonical(r[i].k), r[i].v), r, i + 1)

mapHeadersOnRows(rows) == [i \in DOMAIN rows |-> CanonicalEntries(<<>>, rows[i], 1)]

expectedFields == <<FieldDate, FieldBookingName, FieldEmployees, FieldCost, FieldHoursPaidOut>>

\* results.errors.filter(e => e.type === 'FieldMismatch' && e.code === 'TooFewFields').length >= 1
needsReparse(results) ==
    \E i \in DOMAIN results.errors :
        results.errors[i].type = "FieldMismatch" /\ results.errors[i].code = "TooFewFields"

\* the messages showWarn is called with
WarnFetchFailed == [msg |-> "Failed to load refined_jobs.csv", n |-> 0]
WarnMissingFields(n) == [msg |-> "Found n rows with missing fields", n |-> n]
WarnParseWarnings(n) == [msg |-> "Some rows had parse warnings", n |-> n]
WarnNoRows == [msg |-> "No rows parsed from refined_jobs.csv", n |-> 0]

\* the rows returned whatever their number
returnsRowsAlways(rows) == TRUE

\* lines 250-253 and 261: null for no rows, the rows otherwise
returnsRows(rows) == Len(rows) > 0

\* loadCSV: what it returns (ok: rows, not null) and the calls of showWarn it
\* makes, in order; the banner shows the last of them
loadCSV(f) ==
    IF f.fetch # "ok"
    THEN [ok |-> FALSE, rows |-> <<>>, warned |-> <<WarnFetchFailed>>,
          count |-> 0, delimiter |-> "auto-detected", recovered |-> FALSE,
          headerRow |-> <<>>]
    ELSE
    LET first     == ParseWithHeader(f.rows)
        tabbed    == first.data = <<>> /\ f.tabRows # <<>>
        results   == IF tabbed THEN ParseWithHeader(f.tabRows) ELSE first
        reparse   == needsReparse(results)
        res2      == ParseAsArrays(f.rows)
        rebuilt   == recoveredRows(res2.data)
        rawRows   == IF reparse THEN rebuilt.rows ELSE results.data
        finalRes  == IF reparse THEN res2 ELSE results
        rows      == mapHeadersOnRows(rawRows)
        missing   == SelectSeq(rows, LAMBDA row :
                        \E i \in DOMAIN expectedFields : ~HasField(row, expectedFields[i]))
        warnings  == (IF Len(missing) > 0 THEN <<WarnMissingFields(Len(missing))>> ELSE <<>>)
                     \o (IF Len(finalRes.errors) > 0
                         THEN <<WarnParseWarnings(Len(finalRes.errors))>> ELSE <<>>)
                     \o (IF Len(rows) = 0 THEN <<WarnNoRows>> ELSE <<>>)
    IN [ok |-> returnsRows(rows),
        rows |-> rows,
        warned |-> warnings,
        count |-> Len(rows),
        delimiter |-> IF tabbed /\ ~reparse THEN "\\t" ELSE ",",
        recovered |-> reparse,
        headerRow |-> IF reparse THEN rebuilt.headerRow ELSE <<>>]

----------------------------------------------------------------------------
(* processData: the field interpreters it calls *)

\* the value of a key a row does not have
Undefined == <<"undefined">>

\* String(v ?? '')
StringOrEmpty(v) == IF v = Undefined THEN <<>> ELSE v

\* String.prototype.includes
Includes(s, sub) ==
    \E i \in 0..(Len(s) - Len(sub)) : SubSeq(s, i + 1, i + Len(sub)) = sub

\* String.prototype.split(','): the pieces between the commas
RECURSIVE SplitComma(_)
SplitComma(s) ==
    IF \A i \in DOMAIN s : s[i] # ","
    THEN <<s>>
    ELSE LET c == CHOOSE i \in DOMAIN s : s[i] = "," /\ \A j \in 1..(i - 1) : s[j] # ","
         IN <<SubSeq(s, 1, c - 1)>> \o SplitComma(SubSeq(s, c + 1, Len(s)))

NotApplicable == <<"n", "/", "a">>

parseMoney(str) ==
    IF toLowerCase(str) = NotApplicable THEN 0 ELSE FirstNumber(str)

\* the number of digits from i on, at most max (\d{1,max}, greedy)
RECURSIVE DigitRun(_, _, _)
DigitRun(s, i, max) ==
    IF max > 0 /\ i <= Len(s) /\ s[i] \in Digits
    THEN 1 + DigitRun(s, i + 1, max - 1)
    ELSE 0

DateSeparators == {"/", "-"}

\* the match of /(\d{1,2})[\/\-](\d{1,2})[\/\-](\d{2,4})/ starting at i: the
\* lengths of its three groups, 0 for the first when there is no match.
\* A shorter day or month is followed by a digit, not a separator, so the
\* greedy lengths are the only ones that can match
DmyAt(s, i) ==
    LET a  == DigitRun(s, i, 2)
        b  == DigitRun(s, i + a + 1, 2)
        c  == DigitRun(s, i + a + b + 2, 4)
        ok == /\ a >= 1
              /\ i + a <= Len(s) /\ s[i + a] \in DateSeparators
              /\ b >= 1
              /\ i + a + b + 1 <= Len(s) /\ s[i + a + b + 1] \in DateSeparators
              /\ c >= 2
    IN [day |-> IF ok THEN a ELSE 0, month |-> b, year |-> c]

\* s.match(...): where the leftmost match starts, 0 when there is none
RECURSIVE DmyFrom(_, _)
DmyFrom(s, i) ==
    IF i > Len(s) THEN 0
    ELSE IF DmyAt(s, i).day > 0 THEN i ELSE DmyFrom(s, i + 1)

\* the texts new Date(s) reads as a date although they hold no D/M/Y numerals,
\* and the time value it gives: "Mar 1 2024" is midnight of 1 March 2024,
\* local time, here eleven hours ahead of UTC. Every other text of the model
\* gives an Invalid Date
FreeFormDateText == <<"M", "a", "r", " ", "1", " ", "2", "0", "2", "4">>
FreeFormDateValue == DateUTC(2024, 2, 1) - 11 * 60

\* new Date(s), then isNaN(d.getTime()) ? null : d
NewDate(s) == IF s = FreeFormDateText THEN Num(FreeFormDateValue) ELSE Null

parseDateSmart(value) ==
    LET s == Trim(StringOrEmpty(value))
        i == DmyFrom(s, 1)
    IN IF s = <<>> THEN Null
       ELSE IF i > 0
       THEN LET g     == DmyAt(s, i)
                day   == DigitsValue(s, i, i + g.day)
                month == DigitsValue(s, i + g.day + 1, i + g.day + 1 + g.month)
                yy    == DigitsValue(s, i + g.day + g.month + 2,
                                     i + g.day + g.month + 2 + g.year)
                year  == IF g.year = 2
                         THEN (IF yy >= 70 THEN 1900 ELSE 2000) + yy
                         ELSE yy
            IN Num(DateUTC(year, month - 1, day))
       ELSE NewDate(s)

----------------------------------------------------------------------------
(* processData: payout allocation *)

Subcontractor == <<"U", "p", "p", "a", "l", "/", "D", "h", "r", "u", "v">>
Randew == <<"R", "a", "n", "d", "e", "w">>
Nikitha == <<"N", "i", "k", "i", "t", "h", "a">>
Oneli == <<"O", "n", "e", "l", "i">>
fixedRateEmployees == <<Randew, Nikitha, Oneli>>

\* valueNumber * 0.5 and valueNumber * 0.25
Half(v) == v \div 2
Quarter(v) == v \div 4

\* A plain object ({}), as the function from its own keys to their values.
\* obj[k] = v with v a number: an own key, but for __proto__, whose setter
\* takes no number
Put(obj, k, v) ==
    IF k = ProtoKey THEN obj
    ELSE [x \in DOMAIN obj \cup {k} |-> IF x = k THEN v ELSE obj[x]]

EmptyObject == [x \in {} |-> 0]

\* whether obj[k] is truthy, for an object whose own values are numbers: an
\* own value other than 0, or a value inherited from Object.prototype
Truthy(obj, k) ==
    IF k \in DOMAIN obj THEN obj[k] # 0
    ELSE k \in InheritedFunctionKeys \cup {ProtoKey}

\* employees.filter(emp => fixedRateEmployees.includes(emp))
presentFixedRate(employees) ==
    SelectSeq(employees, LAMBDA e : e \in Range(fixedRateEmployees))

\* lines 330-336: the fixed-rate tier
RECURSIVE PutAll(_, _, _)
PutAll(obj, keys, v) ==
    IF keys = <<>> THEN obj ELSE PutAll(Put(obj, Head(keys), v), Tail(keys), v)

FixedRateTier(employees, valueNumber) ==
    LET present == presentFixedRate(employees) IN
    IF Len(present) = 1 THEN Put(EmptyObject, present[1], Half(valueNumber))
    ELSE IF Len(present) >= 2 THEN PutAll(EmptyObject, present, Quarter(valueNumber))
    ELSE EmptyObject

\* lines 339-345: the loop over the employees, from the i-th on
RECURSIVE OthersTier(_, _, _, _, _)
OthersTier(payouts, employees, i, valueNumber, subcontractorPayout) ==
    IF i > Len(employees) THEN payouts
    ELSE LET employee == employees[i]
             next == IF employee = Subcontractor
                     THEN Put(payouts, employee, subcontractorPayout)
                     ELSE IF employee \notin Range(fixedRateEmployees)
                             /\ ~Truthy(payouts, employee)
                     THEN Put(payouts, employee, valueNumber)
                     ELSE payouts
         IN OthersTier(next, employees, i + 1, valueNumber, subcontractorPayout)

\* the allocation with the subcontractor's entry written whether or not the
\* subcontractor is on the job
employeePayoutsSubcontractorAlways(employees, valueNumber) ==
    Put(OthersTier(FixedRateTier(employees, valueNumber), employees, 1, valueNumber,
                   IF Subcontractor \in Range(employees) THEN Half(valueNumber) ELSE 0),
        Subcontractor,
        IF Subcontractor \in Range(employees) THEN Half(valueNumber) ELSE 0)

subcontractorPayoutOf(employees, valueNumber) ==
    IF Subcontractor \in Range(employees) THEN Half(valueNumber) ELSE 0

employeePayoutsOf(employees, valueNumber) ==
    OthersTier(FixedRateTier(employees, valueNumber), employees, 1, valueNumber,
               subcontractorPayoutOf(employees, valueNumber))

----------------------------------------------------------------------------
(* processData *)

Cancelled == <<"c", "a", "n", "c", "e", "l", "l", "e", "d">>
TouchUp == <<"t", "o", "u", "c", "h", " ", "u", "p">>
PlusGST == <<"+", " ", "g", "s", "t">>

\* employeesRaw.split(',').map(e => e.trim()).filter(Boolean), [] for ''
employeesOf(employeesRaw) ==
    IF employeesRaw = <<>> THEN <<>>
    ELSE LET pieces == SplitComma(employeesRaw)
             trimmed == [i \in DOMAIN pieces |-> Trim(pieces[i])]
         IN SelectSeq(trimmed, LAMBDA e : e # <<>>)

\* the ProcessedJob of a row whose date parsed (lines 300-360)
ProcessedJob(row, date) ==
    LET bookingName  == Trim(StringOrEmpty(row.BookingName))
        employeesRaw == Trim(StringOrEmpty(row.Employees))
        costRaw      == StringOrEmpty(row.Cost)
        hoursRaw     == StringOrEmpty(row.HoursPaidOut)
        employees    == employeesOf(employeesRaw)
        valueNumber  == parseMoney(costRaw)
        isCancelled  == Includes(toLowerCase(bookingName), Cancelled)
        isTouchUp    == Includes(toLowerCase(bookingName), TouchUp)
    IN [date |-> date,
        dateKey |-> <<getUTCFullYear(date), getUTCMonth(date) + 1, getUTCDate(date)>>,
        bookingName |-> bookingName,
        employees |-> employees,
        value |-> valueNumber,
        paidHours |-> parsePaidHours(hoursRaw),
        isCancelled |-> isCancelled,
        isTouchUp |-> isTouchUp,
        hasGST |-> Includes(toLowerCase(costRaw), PlusGST),
        isBillable |-> valueNumber > 0 /\ ~isCancelled /\ ~isTouchUp,
        subcontractorPayout |-> subcontractorPayoutOf(employees, valueNumber),
        employeePayouts |-> employeePayoutsOf(employees, valueNumber)]

\* rows.map(row => ...): null for a row whose date does not parse
MapRow(row) ==
    LET date == parseDateSmart(row.Date) IN
    IF ~date.present THEN <<>> ELSE <<ProcessedJob(row, date.v)>>

\* the map with the rows after the first unparseable one lost
RECURSIVE processedRowsUntilNull(_)
processedRowsUntilNull(rows) ==
    IF rows = <<>> \/ MapRow(Head(rows)) = <<>> THEN <<>>
    ELSE MapRow(Head(rows)) \o processedRowsUntilNull(Tail(rows))

\* rows.map(...).filter(Boolean)
RECURSIVE processedRowsOf(_)
processedRowsOf(rows) ==
    IF rows = <<>> THEN <<>> ELSE MapRow(Head(rows)) \o processedRowsOf(Tail(rows))

\* lastUpdated: the latest date among the rows that parsed, null when none
RECURSIVE lastUpdatedOf(_, _)
lastUpdatedOf(jobs, lastUpdated) ==
    IF jobs = <<>> THEN lastUpdated
    ELSE lastUpdatedOf(Tail(jobs),
                       IF ~lastUpdated.present \/ Head(jobs).date > lastUpdated.v
                       THEN Num(Head(jobs).date)
                       ELSE lastUpdated)

processData(rows) ==
    [rows |-> processedRowsOf(rows),
     lastUpdated |-> lastUpdatedOf(processedRowsOf(rows), Null)]

----------------------------------------------------------------------------
(* renderBestHourly *)

\* the least number of jobs with paid hours an employee is listed with
MinJobsWithPaidHours == 5
\* the length the list is cut to
TopCount == 10

EXCLUDE_HOURLY == {<<"n", "i", "k", "i", "t", "h", "a">>, <<"o", "n", "e", "l", "i">>, <<"r", "a", "n", "d", "e", "w">>, <<"u", "p", "p", "a", "l">>}

\* String(s || '').trim().toLowerCase()
normalize(s) == toLowerCase(Trim(s))

\* employeeData, a plain object, as the sequence of its own entries in the
\* order the keys were made (Object.entries gives them in that order); a key
\* inherited from Object.prototype is truthy and never becomes an own key
IndexOfKey(entries, key) ==
    IF \E i \in DOMAIN entries : entries[i].employee = key
    THEN CHOOSE i \in DOMAIN entries : entries[i].employee = key
    ELSE 0

\* lines 510-523: one employee of one row
CountEmployee(entries, row, employee) ==
    LET key == Trim(employee)
        i   == IndexOfKey(entries, key)
    IN IF normalize(employee) \in EXCLUDE_HOURLY THEN entries
       ELSE IF i = 0 /\ key \in InheritedFunctionKeys \cup {ProtoKey} THEN entries
       ELSE LET made == IF i = 0
                        THEN Append(entries, [employee |-> key, jobsWithPaidHours |-> 0,
                                              paidHours |-> 0, revenue |-> 0])
                        ELSE entries
                j    == IF i = 0 THEN Len(made) ELSE i
                old  == made[j]
            IN [made EXCEPT ![j] =
                   [employee |-> key,
                    jobsWithPaidHours |-> old.jobsWithPaidHours
                                          + (IF row.paidHours.present THEN 1 ELSE 0),
                    paidHours |-> old.paidHours
                                  + (IF row.paidHours.present THEN row.paidHours.v ELSE 0),
                    revenue |-> old.revenue + (IF row.isBillable THEN row.value ELSE 0)]]

\* row.employees.forEach(...), from the i-th employee on
RECURSIVE CountEmployees(_, _, _)
CountEmployees(entries, row, i) ==
    IF i > Len(row.employees) THEN entries
    ELSE CountEmployees(CountEmployee(entries, row, row.employees[i]), row, i + 1)

\* rows.forEach(...), from the i-th row on
RECURSIVE employeeDataOf(_, _, _)
employeeDataOf(entries, rows, i) ==
    IF i > Len(rows) THEN entries
    ELSE employeeDataOf(CountEmployees(entries, rows[i], 1), rows, i + 1)

RECURSIVE GCD(_, _)
GCD(a, b) == IF b = 0 THEN a ELSE GCD(b, a % b)

\* a quotient of two numbers, as a fraction in lowest terms
Ratio(n, d) == LET g == GCD(n, d) IN [num |-> n \div g, den |-> d \div g]
Zero == [num |-> 0, den |-> 1]
Less(p, q) == p.num * q.den < q.num * p.den

\* Array.prototype.sort((a, b) => b.perHour - a.perHour): descending, entries
\* of equal perHour left in their order (the sort is stable)
RECURSIVE InsertByPerHour(_, _)
InsertByPerHour(sorted, e) ==
    IF sorted = <<>> THEN <<e>>
    ELSE IF Less(Head(sorted).perHour, e.perHour) THEN <<e>> \o sorted
    ELSE <<Head(sorted)>> \o InsertByPerHour(Tail(sorted), e)

RECURSIVE SortByPerHour(_, _)
SortByPerHour(list, i) ==
    IF i = 0 THEN <<>> ELSE InsertByPerHour(SortByPerHour(list, i - 1), list[i])

\* Array.prototype.slice(0, n)
Slice(list, n) == SubSeq(list, 1, IF Len(list) < n THEN Len(list) ELSE n)

renderBestHourly(rows) ==
    LET employeeData == employeeDataOf(<<>>, rows, 1)
        enough == SelectSeq(employeeData,
                            LAMBDA e : e.jobsWithPaidHours >= MinJobsWithPaidHours)
        withPerHour == [i \in DOMAIN enough |->
            [employee |-> enough[i].employee,
             jobsWithPaidHours |-> enough[i].jobsWithPaidHours,
             paidHours |-> enough[i].paidHours,
             revenue |-> enough[i].revenue,
             perHour |-> IF enough[i].paidHours > 0
                         THEN Ratio(enough[i].revenue, enough[i].paidHours)
                         ELSE Zero]]
    IN Slice(SortByPerHour(withPerHour, Len(withPerHour)), TopCount)

----------------------------------------------------------------------------
(* renderDashboard: the summary, the revenue rollups and the ranked lists.  *)
(* A plain object or Map the renderers accumulate in is held as the         *)
(* sequence of its entries in the order the keys were made, which is the    *)
(* order Object.entries gives them in; the keys of this section are dates   *)
(* and the employee names of the model, none an integer index and none a    *)
(* name Object.prototype defines. The workload heatmap, drawn from          *)
(* weeklyEmployeeHours with its weeks and its employees sorted, is left out.*)

\* the least number of billable jobs an employee of the per-job list is on
MinPaidJobs == 5

\* rows.filter(r => r.isBillable)
billableJobsOf(rows) == SelectSeq(rows, LAMBDA r : r.isBillable)

\* acc[key] = amount: what the key had before is lost
AddToOverwriting(acc, key, amount) ==
    IF \E i \in DOMAIN acc : acc[i].key = key
    THEN [i \in DOMAIN acc |->
            IF acc[i].key = key THEN [key |-> key, total |-> amount] ELSE acc[i]]
    ELSE Append(acc, [key |-> key, total |-> amount])

\* acc[key] = (acc[key] || 0) + amount
AddTo(acc, key, amount) ==
    IF \E i \in DOMAIN acc : acc[i].key = key
    THEN [i \in DOMAIN acc |->
            IF acc[i].key = key THEN [key |-> key, total |-> acc[i].total + amount]
            ELSE acc[i]]
    ELSE Append(acc, [key |-> key, total |-> amount])

\* Array.prototype.sort(compare), which is stable: with first[i, j] telling
\* whether compare puts the i-th entry before the j-th, the entries in that
\* order, and in the order they had where neither comes first
StableSort(list, first) ==
    LET before(j, i) == first[j, i] \/ (~first[i, j] /\ j < i)
        place(i)     == 1 + Cardinality({j \in DOMAIN list : before(j, i)})
    IN [p \in DOMAIN list |-> list[CHOOSE i \in DOMAIN list : place(i) = p]]

\* the order of two date keys as strings: "YYYY-MM-DD" and "YYYY-MM" with
\* years of four digits, held as <<year, month, day>> and <<year, month>>
RECURSIVE KeyLess(_, _)
KeyLess(a, b) ==
    IF a = <<>> \/ b = <<>> THEN FALSE
    ELSE Head(a) < Head(b) \/ (Head(a) = Head(b) /\ KeyLess(Tail(a), Tail(b)))

\* Object.keys(acc).sort(), each key with its value
SortedByKey(acc) ==
    StableSort(acc, [i, j \in DOMAIN acc |-> KeyLess(acc[i].key, acc[j].key)])

\* monday.toISOString().split('T')[0]
weekKeyOf(row) ==
    LET c == CivilFromDays(DayOf(getMonday(row.date).returned)) IN <<c.year, c.month, c.day>>

\* `${row.date.getUTCFullYear()}-${String(row.date.getUTCMonth() + 1).padStart(2, '0')}`
monthKeyOf(row) == <<getUTCFullYear(row.date), getUTCMonth(row.date) + 1>>

\* lines 416-421: the reduce over the billable rows, from the i-th on
RECURSIVE weeklyDataOf(_, _, _)
weeklyDataOf(acc, jobs, i) ==
    IF i > Len(jobs) THEN acc
    ELSE weeklyDataOf(AddTo(acc, weekKeyOf(jobs[i]), jobs[i].value), jobs, i + 1)

\* lines 435-439
RECURSIVE monthlyDataOf(_, _, _)
monthlyDataOf(acc, jobs, i) ==
    IF i > Len(jobs) THEN acc
    ELSE monthlyDataOf(AddTo(acc, monthKeyOf(jobs[i]), jobs[i].value), jobs, i + 1)

\* lines 453-458: jobs and revenue of each day
RECURSIVE dailyDataOf(_, _, _)
dailyDataOf(acc, jobs, i) ==
    IF i > Len(jobs) THEN acc
    ELSE LET key  == jobs[i].dateKey
             made == IF \E n \in DOMAIN acc : acc[n].key = key THEN acc
                     ELSE Append(acc, [key |-> key, jobs |-> 0, revenue |-> 0])
             next == [n \in DOMAIN made |->
                        IF made[n].key = key
                        THEN [key |-> key, jobs |-> made[n].jobs + 1,
                              revenue |-> made[n].revenue + jobs[i].value]
                        ELSE made[n]]
         IN dailyDataOf(next, jobs, i + 1)

\* row.employeePayouts[employee] || 0
payoutOrZero(row, employee) ==
    IF employee \in DOMAIN row.employeePayouts THEN row.employeePayouts[employee] ELSE 0

\* lines 476-479: row.employees.forEach, from the i-th employee on
RECURSIVE AddPayouts(_, _, _)
AddPayouts(acc, row, i) ==
    IF i > Len(row.employees) THEN acc
    ELSE AddPayouts(AddTo(acc, row.employees[i], payoutOrZero(row, row.employees[i])), row, i + 1)

\* lines 475-481: the reduce over the billable rows, from the i-th on
RECURSIVE employeeRevenueOf(_, _, _)
employeeRevenueOf(acc, jobs, i) ==
    IF i > Len(jobs) THEN acc
    ELSE employeeRevenueOf(AddPayouts(acc, jobs[i], 1), jobs, i + 1)

\* lines 402-406: what the badges show
renderSummaryBadges(rows) ==
    LET billableJobs == billableJobsOf(rows)
        revenue[i \in 0..Len(billableJobs)] ==
            IF i = 0 THEN 0 ELSE revenue[i - 1] + billableJobs[i].value
        hours[i \in 0..Len(rows)] ==
            IF i = 0 THEN 0
            ELSE hours[i - 1] + (IF rows[i].paidHours.present THEN rows[i].paidHours.v ELSE 0)
    IN [totalJobs |-> Len(rows),
        billableJobs |-> Len(billableJobs),
        totalRevenue |-> revenue[Len(billableJobs)],
        totalPaidHours |-> hours[Len(rows)],
        averageRevenuePerJob |-> IF Len(rows) > 0
                                 THEN Ratio(revenue[Len(billableJobs)], Len(rows))
                                 ELSE Zero]

\* lines 416-425: the weeks in the order of their keys, each with its revenue
renderWeeklyRevenue(rows) == SortedByKey(weeklyDataOf(<<>>, billableJobsOf(rows), 1))

\* lines 435-443
renderMonthlyRevenue(rows) == SortedByKey(monthlyDataOf(<<>>, billableJobsOf(rows), 1))

\* lines 453-462: the days by revenue, the greater first, cut to ten
renderBusiestDays(rows) ==
    LET dailyData == dailyDataOf(<<>>, billableJobsOf(rows), 1) IN
    Slice(StableSort(dailyData,
                     [i, j \in DOMAIN dailyData |->
                         dailyData[i].revenue > dailyData[j].revenue]),
          TopCount)

\* lines 475-485: the employees by total, the greater first, cut to ten
renderTopEmployees(rows) ==
    LET employeeRevenue == employeeRevenueOf(<<>>, billableJobsOf(rows), 1) IN
    Slice(StableSort(employeeRevenue,
                     [i, j \in DOMAIN employeeRevenue |->
                         employeeRevenue[i].total > employeeRevenue[j].total]),
          TopCount)

\* lines 633-641: one employee of one billable row with employees
perJobEntry(entries, row, employee) ==
    LET made == IF \E n \in DOMAIN entries : entries[n].employee = employee THEN entries
                ELSE Append(entries, [employee |-> employee, paidJobs |-> 0, revenue |-> 0])
    IN [n \in DOMAIN made |->
          IF made[n].employee = employee
          THEN [employee |-> employee, paidJobs |-> made[n].paidJobs + 1,
                revenue |-> made[n].revenue + payoutOrZero(row, employee)]
          ELSE made[n]]

RECURSIVE perJobEntries(_, _, _)
perJobEntries(entries, row, i) ==
    IF i > Len(row.employees) THEN entries
    ELSE perJobEntries(perJobEntry(entries, row, row.employees[i]), row, i + 1)

\* lines 626-642: rows.forEach, from the i-th row on
RECURSIVE perJobDataOf(_, _, _)
perJobDataOf(entries, rows, i) ==
    IF i > Len(rows) THEN entries
    ELSE perJobDataOf(IF rows[i].isBillable THEN perJobEntries(entries, rows[i], 1)
                      ELSE entries,
                      rows, i + 1)

\* lines 645-652: the employees on five billable jobs or more, by revenue per
\* job, the greater first
renderBestPerJob(rows) ==
    LET employeeData == perJobDataOf(<<>>, rows, 1)
        enough  == SelectSeq(employeeData, LAMBDA e : e.paidJobs >= MinPaidJobs)
        withPer == [i \in DOMAIN enough |->
                      [employee |-> enough[i].employee,
                       paidJobs |-> enough[i].paidJobs,
                       revenue |-> enough[i].revenue,
                       perJob |-> Ratio(enough[i].revenue, enough[i].paidJobs)]]
    IN StableSort(withPer,
                  [i, j \in DOMAIN withPer |-> Less(withPer[j].perJob, withPer[i].perJob)])

\* lines 393-399: what the renderers put on the page for data
renderDashboard(d) ==
    [summary |-> renderSummaryBadges(d.rows),
     weekly |-> renderWeeklyRevenue(d.rows),
     monthly |-> renderMonthlyRevenue(d.rows),
     busiestDays |-> renderBusiestDays(d.rows),
     topEmployees |-> renderTopEmployees(d.rows),
     bestHourly |-> renderBestHourly(d.rows),
     bestPerJob |-> renderBestPerJob(d.rows),
     lastUpdated |-> d.lastUpdated]

----------------------------------------------------------------------------
(* Inputs *)

\* the characters the texts of the model are written in
HoursAlphabet == {"0", "5", ".", "H", " ", "x"}

RECURSIVE TextsUpTo(_, _)
TextsUpTo(alphabet, n) ==
    IF n = 0 THEN {<<>>}
    ELSE LET shorter == TextsUpTo(alphabet, n - 1) IN
         shorter \cup {Append(t, c) : t \in shorter, c \in alphabet}

\* the ways a header word is written in a file: its letter case, what stands
\* between its words, and what stands before and after it
CaseStyles == {"lower", "upper", "title", "first"}
Separators == {<<" ">>, <<"_">>, <<" ", " ">>, <<"(">>, <<"-">>}
Prefixes == {<<>>, <<BOM>>, <<" ">>, <<BOM, " ">>, <<" ", BOM>>}
Suffixes == {<<>>, <<" ">>, <<":">>, <<")">>}

\* words no entry of the synonym table lists
UnlistedWords == {<<"n", "o", "t", "e", "s">>,
                  <<"c", "o", "n", "s", "t", "r", "u", "c", "t", "o", "r">>,
                  <<"c", "o", "l", "1">>}

HeaderWords == Range(SynonymKeys) \cup UnlistedWords

WithCase(w, style) ==
    [i \in DOMAIN w |->
        IF style = "upper" THEN UpperChar(w[i])
        ELSE IF style = "title" /\ (i = 1 \/ w[i - 1] = " ") THEN UpperChar(w[i])
        ELSE IF style = "first" /\ i = 1 THEN UpperChar(w[i])
        ELSE w[i]]

RECURSIVE WithSeparator(_, _)
WithSeparator(w, sep) ==
    IF w = <<>> THEN <<>>
    ELSE (IF Head(w) = " " THEN sep ELSE <<Head(w)>>) \o WithSeparator(Tail(w), sep)

Styled(w, style, sep, pre, suf) == pre \o WithSeparator(WithCase(w, style), sep) \o suf

\* the characters headers are written in freely
HeaderAlphabet == {BOM, " ", "x", "X", "_"}

\* the names the jobs of the model list
Alice == <<"A", "l", "i", "c", "e">>
Bob == <<"B", "o", "b">>
Constructor == <<"c", "o", "n", "s", "t", "r", "u", "c", "t", "o", "r">>

\* the ways the names of an Employees cell are strung together
JoinStyles == {<<",">>, <<",", " ">>, <<" ", ",", ",">>}

RECURSIVE Join(_, _)
Join(names, sep) ==
    IF names = <<>> THEN <<>>
    ELSE IF Len(names) = 1 THEN Head(names)
    ELSE Head(names) \o sep \o Join(Tail(names), sep)

\* a canonical row, as loadCSV hands it on
Row(date, bookingName, employees, cost, hours) ==
    [Date |-> date, BookingName |-> bookingName, Employees |-> employees,
     Cost |-> cost, HoursPaidOut |-> hours]

\* texts of Date cells: "1/3/24", "3-3-2024", "x31/12/99" and "Mar 1 2024" are
\* read as dates, "  " and "TBC" are not, and a row may have no Date at all
ParseableDateCells == {<<"1", "/", "3", "/", "2", "4">>, <<"3", "-", "3", "-", "2", "0", "2", "4">>, <<"x", "3", "1", "/", "1", "2", "/", "9", "9">>, FreeFormDateText}
UnparseableDateCells == {<<" ", " ">>, <<"T", "B", "C">>, Undefined}

\* the names the header line of the file is written from: two synonyms of one
\* field, another field, the name the padding makes for a second column, and
\* a name no object takes as a key
Staff == <<"S", "t", "a", "f", "f">>
HeaderCells == {Staff, FieldEmployees, FieldDate, Col \o <<"2">>, ProtoKey}

\* a line of n filled cells, each holding the number of its column, and a
\* line with no filled cell
Cells(n) == [j \in 1..n |-> NumberText(j)]
BlankLine == <<<<" ">>>>
LineOfKind(k) == IF k = 0 THEN BlankLine ELSE Cells(k)

\* the lines after the header: up to MaxBody of them, of 1..MaxCols cells or
\* blank, given in the order of their kinds (the order of the lines decides
\* only the order of the rows returned)
NonDecreasing(ks) == \A i \in 1..(Len(ks) - 1) : ks[i] <= ks[i + 1]
BodyKinds == {ks \in TextsUpTo(0..MaxCols, MaxBody) : NonDecreasing(ks)}
BodyOf(ks) == [i \in DOMAIN ks |-> LineOfKind(ks[i])]

\* what the file gives when split at tabs, for a file whose first line holds
\* a tab: a header and a full line, or a header and a short line
TabFiles == {<<<<FieldDate, Staff>>, Cells(2)>>, <<<<FieldDate, Staff>>, Cells(1)>>}

----------------------------------------------------------------------------
(* The run of parsePaidHours over every text of the bound *)

\* the variables of the other runs, at rest
HoursIdle == hoursText = <<>> /\ hoursResult = Null
MondayIdle == mondayGiven = 0 /\ mondayArg = 0 /\ mondayResult = 0
CanonIdle == headerBase = <<>> /\ header = <<>> /\ canon1 = <<>> /\ canon2 = <<>>
LoadIdle == file = <<>> /\ loaded = <<>>
ProcessIdle == csvRows = <<>> /\ data = <<>> /\ hourly = <<>>
DashboardIdle == dashboard = <<>> /\ perm = <<>> /\ permuted = <<>>

\* 2023-12-20: the days from here on cross a year's start, the months' starts
\* and a leap day
FirstDay == DaysFromCivil(2023, 12, 20)

\* the times of day a Date handed to getMonday has: parseDateSmart gives
\* midnight UTC for D/M/Y text and whatever new Date(s) reads otherwise
TimesOfDay == {0, TicksPerDay - 1}

InitHours ==
    /\ pc = "hours"
    /\ hoursText \in TextsUpTo(HoursAlphabet, MaxTextLen)
    /\ hoursResult = Null
    /\ MondayIdle /\ CanonIdle /\ LoadIdle /\ ProcessIdle /\ DashboardIdle

ParsePaidHours ==
    /\ pc = "hours"
    /\ hoursResult' = parsePaidHours(hoursText)
    /\ pc' = "hoursDone"
    /\ UNCHANGED <<hoursText, mondayGiven, mondayArg, mondayResult, headerBase, header, canon1,
                   canon2, file, loaded, csvRows, data, hourly,
                   dashboard, perm, permuted>>

NextHours == ParsePaidHours

SpecHours == InitHours /\ [][NextHours]_vars

----------------------------------------------------------------------------
(* The run of getMonday over every day of the bound *)

InitMonday ==
    /\ pc = "monday"
    /\ mondayGiven \in {(FirstDay + n) * TicksPerDay + t : n \in 0..MaxDays, t \in TimesOfDay}
    /\ mondayArg = mondayGiven
    /\ mondayResult = 0
    /\ HoursIdle /\ CanonIdle /\ LoadIdle /\ ProcessIdle /\ DashboardIdle

GetMonday ==
    /\ pc = "monday"
    /\ mondayResult' = getMonday(mondayArg).returned
    /\ mondayArg' = getMonday(mondayArg).d
    /\ pc' = "mondayDone"
    /\ UNCHANGED <<hoursText, hoursResult, mondayGiven, headerBase, header, canon1,
                   canon2, file, loaded, csvRows, data, hourly,
                   dashboard, perm, permuted>>

NextMonday == GetMonday

SpecMonday == InitMonday /\ [][NextMonday]_vars

----------------------------------------------------------------------------
(* The run of processData, then renderBestHourly on what it returned *)

\* one row, over every employee list and cost of the bound
PayoutNames == {Randew, Nikitha, Oneli, Subcontractor, Alice, Constructor}
CostCells == {<<"1", "0", "0">>, <<"$", "2", "0", "0", " ", "+", " ", "G", "S", "T">>, <<"N", "/", "A">>}

InitPayout ==
    /\ pc = "process"
    /\ \E names \in TextsUpTo(PayoutNames, MaxEmployees), sep \in JoinStyles, cost \in CostCells :
          csvRows = <<Row(<<"1", "/", "3", "/", "2", "4">>, <<"A">>, Join(names, sep), cost, <<"2", "H">>)>>
    /\ data = <<>> /\ hourly = <<>>
    /\ HoursIdle /\ MondayIdle /\ CanonIdle /\ LoadIdle /\ DashboardIdle

\* up to MaxRows rows, over every Date cell
DatedRows ==
    {Row(date, name, Alice, <<"1", "0", "0">>, <<"2", "H">>) :
        date \in ParseableDateCells \cup UnparseableDateCells, name \in {<<"A">>, <<"B">>}}

InitRows ==
    /\ pc = "process"
    /\ csvRows \in TextsUpTo(DatedRows, MaxRows)
    /\ data = <<>> /\ hourly = <<>>
    /\ HoursIdle /\ MondayIdle /\ CanonIdle /\ LoadIdle /\ DashboardIdle

\* up to MaxJobs rows, over employee lists with and without paid hours
StaffedRows ==
    {Row(<<"1", "/", "3", "/", "2", "4">>, <<"A">>, Join(names, <<",", " ">>), <<"1", "0", "0">>, hours) :
        names \in TextsUpTo({Alice, Bob}, MaxListed), hours \in {<<"2", "H">>, <<>>}}

InitHourly ==
    /\ pc = "process"
    /\ csvRows \in TextsUpTo(StaffedRows, MaxJobs)
    /\ data = <<>> /\ hourly = <<>>
    /\ HoursIdle /\ MondayIdle /\ CanonIdle /\ LoadIdle /\ DashboardIdle

ProcessData ==
    /\ pc = "process"
    /\ data' = processData(csvRows)
    /\ pc' = "processed"
    /\ UNCHANGED <<hoursText, hoursResult, mondayGiven, mondayArg, mondayResult,
                   headerBase, header, canon1, canon2, file, loaded, csvRows, hourly,
                   dashboard, perm, permuted>>

RenderBestHourly ==
    /\ pc = "processed"
    /\ hourly' = renderBestHourly(data.rows)
    /\ pc' = "rendered"
    /\ UNCHANGED <<hoursText, hoursResult, mondayGiven, mondayArg, mondayResult,
                   headerBase, header, canon1, canon2, file, loaded, csvRows, data,
                   dashboard, perm, permuted>>

NextProcess == ProcessData \/ RenderBestHourly

SpecPayout == InitPayout /\ [][NextProcess]_vars
SpecRows == InitRows /\ [][NextProcess]_vars
SpecHourly == InitHourly /\ [][NextProcess]_vars

----------------------------------------------------------------------------
(* Claims about processData *)

Done == pc \in {"processed", "rendered"}

\* the processed jobs, once processData has returned
Jobs == IF Done THEN Range(data.rows) ELSE {}

\* C1: for every ProcessedJob, whatever its employee list (empty, with
\* duplicates, with the subcontractor, with fixed-rate names) and its value,
\* every key of employeePayouts is an element of the job's employees.
C1_PayoutKeysAreEmployees ==
    \A job \in Jobs : DOMAIN job.employeePayouts \subseteq Range(job.employees)

\* a job that lists the subcontractor, a fixed-rate name and another name
\* has been given its three payouts
C1_Witness ==
    \E job \in Jobs :
        /\ {Subcontractor, Randew, Alice} \subseteq Range(job.employees)
        /\ DOMAIN job.employeePayouts = {Subcontractor, Randew, Alice}
        /\ job.value > 0

\* the fixed-rate names present on a job
FixedPresent(job) == Range(job.employees) \cap Range(fixedRateEmployees)

\* C2: for every job, if exactly one of the three fixed-rate names is present
\* on it, that person's payout is 50% of the job value; if two or more of
\* them are present, each gets 25% of it; also when a name is repeated in the
\* employee list.
C2_FixedRateShares ==
    \A job \in Jobs :
        /\ Cardinality(FixedPresent(job)) = 1 =>
              \A e \in FixedPresent(job) :
                  e \in DOMAIN job.employeePayouts
                  /\ job.employeePayouts[e] = Half(job.value)
        /\ Cardinality(FixedPresent(job)) >= 2 =>
              \A e \in FixedPresent(job) :
                  e \in DOMAIN job.employeePayouts
                  /\ job.employeePayouts[e] = Quarter(job.value)

\* C3: for every job, whoever else is on it, the subcontractor when present
\* is allocated exactly 50% of the job value, and every employee who is
\* neither the subcontractor nor a fixed-rate name is allocated exactly the
\* full job value.
C3_SubcontractorHalfOthersFull ==
    \A job \in Jobs :
        /\ Subcontractor \in Range(job.employees) =>
              Subcontractor \in DOMAIN job.employeePayouts
              /\ job.employeePayouts[Subcontractor] = Half(job.value)
        /\ \A e \in Range(job.employees) \ ({Subcontractor} \cup Range(fixedRateEmployees)) :
              e \in DOMAIN job.employeePayouts
              /\ job.employeePayouts[e] = job.value

\* the booking names of a sequence of rows or jobs, in order
RECURSIVE NamesOfRows(_)
NamesOfRows(rows) ==
    IF rows = <<>> THEN <<>> ELSE <<Head(rows).BookingName>> \o NamesOfRows(Tail(rows))
RECURSIVE NamesOfJobs(_)
NamesOfJobs(jobs) ==
    IF jobs = <<>> THEN <<>> ELSE <<Head(jobs).bookingName>> \o NamesOfJobs(Tail(jobs))

\* the rows whose Date cell is one of the texts read as a date
DatedOnly(rows) == SelectSeq(rows, LAMBDA r : r.Date \in ParseableDateCells)

\* C10: processData gives exactly one ProcessedJob for each row whose Date
\* cell can be parsed and none for a row whose Date cell cannot be parsed or
\* is missing; the jobs keep the order of the rows they come from, so there
\* are as many jobs as rows with a parseable date.
C10_OneJobPerDatedRow ==
    Done =>
        /\ Len(data.rows) = Len(DatedOnly(csvRows))
        /\ NamesOfJobs(data.rows) = NamesOfRows(DatedOnly(csvRows))
        /\ data.lastUpdated.present = (DatedOnly(csvRows) # <<>>)

\* of three rows the middle one, whose date cannot be parsed, gave no job, and
\* the other two gave theirs in order
C10_Witness ==
    /\ Done
    /\ Len(csvRows) = 3
    /\ csvRows[2].Date \in UnparseableDateCells
    /\ csvRows[1].BookingName # csvRows[3].BookingName
    /\ Len(data.rows) = 2
    /\ data.rows[1].bookingName = csvRows[1].BookingName
    /\ data.rows[2].bookingName = csvRows[3].BookingName

\* the number of jobs that list an employee and carry a present paid-hours value
JobsWithHours(employee) ==
    Cardinality({i \in DOMAIN data.rows :
                    /\ employee \in Range(data.rows[i].employees)
                    /\ data.rows[i].paidHours.present})

\* C6: the hourly-performance list holds no employee who is on fewer than 5
\* distinct jobs carrying a present paid-hours value, also when a job lists
\* the same employee more than once.
C6_HourlyListNeedsFiveJobs ==
    pc = "rendered" =>
        \A i \in DOMAIN hourly : JobsWithHours(hourly[i].employee) >= MinJobsWithPaidHours

----------------------------------------------------------------------------
(* The run of loadCSV *)

InitLoad ==
    /\ pc = "load"
    /\ \/ /\ \E outcome \in {"httpError", "networkError"} :
                file = [fetch |-> outcome, rows |-> <<>>, tabRows |-> <<>>]
       \/ \E names \in TextsUpTo(HeaderCells, MaxCols) \ {<<>>}, ks \in BodyKinds :
                file = [fetch |-> "ok", rows |-> <<names>> \o BodyOf(ks), tabRows |-> <<>>]
       \/ \E names \in TextsUpTo(HeaderCells, MaxCols), tab \in TabFiles :
                file = [fetch |-> "ok",
                        rows |-> IF names = <<>> THEN <<>> ELSE <<names>>,
                        tabRows |-> tab]
    /\ loaded = <<>>
    /\ HoursIdle /\ MondayIdle /\ CanonIdle /\ ProcessIdle /\ DashboardIdle

LoadCSV ==
    /\ pc = "load"
    /\ loaded' = loadCSV(file)
    /\ pc' = "loaded"
    /\ UNCHANGED <<hoursText, hoursResult, mondayGiven, mondayArg, mondayResult,
                   headerBase, header, canon1, canon2, file, csvRows, data, hourly,
                   dashboard, perm, permuted>>

NextLoad == LoadCSV

SpecLoad == InitLoad /\ [][NextLoad]_vars

\* the recovery path ran and loadCSV returned rows
Recovered == pc = "loaded" /\ loaded.recovered /\ loaded.ok

\* the lines after the header line that have a filled cell
BodyLines == Tail(SelectSeq(file.rows, SomeCellFilled))

\* len is a most frequent length among the body lines
MostFrequent(len) ==
    /\ CountOfLength(BodyLines, len) > 0
    /\ \A i \in DOMAIN BodyLines :
          CountOfLength(BodyLines, len) >= CountOfLength(BodyLines, Len(BodyLines[i]))

\* the keys the names of the adjusted header give a record
CanonicalKeys == {toCanonical(loaded.headerRow[i]) : i \in DOMAIN loaded.headerRow} \ {ProtoKey}

\* C8 as claimed: when the recovery path runs, the header is cut or padded to
\* the dominant body-row length and every record loadCSV returns has exactly
\* that many keys, for every header row (repeated names and several synonyms
\* of one field included) and every mix of body-row lengths.
C8_ExactlyDominantKeys ==
    Recovered =>
        /\ MostFrequent(Len(loaded.headerRow))
        /\ \A i \in DOMAIN loaded.rows :
              Cardinality(KeysOf(loaded.rows[i])) = Len(loaded.headerRow)

\* C8 as amended: when the recovery path runs, the header is cut or padded to
\* the dominant body-row length and every record loadCSV returns has one key
\* for each distinct canonical name of that header (none for __proto__): at
\* most the dominant length, and exactly that many when the header's names
\* give pairwise distinct canonical keys, none of them __proto__.
C8_KeysOfAdjustedHeader ==
    Recovered =>
        /\ MostFrequent(Len(loaded.headerRow))
        /\ \A i \in DOMAIN loaded.rows :
              /\ KeysOf(loaded.rows[i]) = CanonicalKeys
              /\ Cardinality(KeysOf(loaded.rows[i])) <= Len(loaded.headerRow)
              /\ Cardinality(CanonicalKeys) = Len(loaded.headerRow)
                    => Cardinality(KeysOf(loaded.rows[i])) = Len(loaded.headerRow)

\* the recovery ran on lines of two lengths under a longer header of distinct
\* names: the header was cut, and the short line's record has every key
C8_Witness ==
    /\ Recovered
    /\ Len(Head(file.rows)) > Len(loaded.headerRow)
    /\ Len(loaded.headerRow) = 2
    /\ \E i, j \in DOMAIN BodyLines : Len(BodyLines[i]) < 2 /\ Len(BodyLines[j]) = 2
    /\ \A i \in DOMAIN loaded.rows : Cardinality(KeysOf(loaded.rows[i])) = 2

----------------------------------------------------------------------------
(* The run of toCanonical, and of toCanonical on its own result *)

InitCanon ==
    /\ pc = "canon"
    /\ \/ /\ headerBase \in HeaderWords
          /\ \E style \in CaseStyles, sep \in Separators, pre \in Prefixes, suf \in Suffixes :
                header = Styled(headerBase, style, sep, pre, suf)
       \/ /\ headerBase = <<>>
          /\ header \in TextsUpTo(HeaderAlphabet, MaxHeaderLen)
    /\ canon1 = <<>> /\ canon2 = <<>>
    /\ HoursIdle /\ MondayIdle /\ LoadIdle /\ ProcessIdle /\ DashboardIdle

Canonicalise ==
    /\ pc = "canon"
    /\ canon1' = toCanonical(header)
    /\ pc' = "canonOnce"
    /\ UNCHANGED <<hoursText, hoursResult, mondayGiven, mondayArg, mondayResult,
                   headerBase, header, canon2, file, loaded, csvRows, data, hourly,
                   dashboard, perm, permuted>>

CanonicaliseAgain ==
    /\ pc = "canonOnce"
    /\ canon2' = toCanonical(canon1)
    /\ pc' = "canonTwice"
    /\ UNCHANGED <<hoursText, hoursResult, mondayGiven, mondayArg, mondayResult,
                   headerBase, header, canon1, file, loaded, csvRows, data, hourly,
                   dashboard, perm, permuted>>

NextCanon == Canonicalise \/ CanonicaliseAgain

SpecCanon == InitCanon /\ [][NextCanon]_vars

\* the canonical key the synonym table gives a listed word
CanonicalOf(w) == SynonymValues[CHOOSE i \in DOMAIN SynonymKeys : SynonymKeys[i] = w]

\* C9: toCanonical is idempotent, toCanonical(toCanonical(h)) = toCanonical(h)
\* for every header h (a listed synonym, an unlisted header, a header with a
\* leading byte-order mark or white space around it), and every listed
\* synonym gives its field's canonical key whatever its letter case and the
\* punctuation in and around it ("Staff", "STAFF", "Employee(s)" all give
\* "Employees").
C9_IdempotentAndMerging ==
    /\ pc = "canonTwice" => canon2 = canon1
    /\ (pc \in {"canonOnce", "canonTwice"} /\ headerBase \in Range(SynonymKeys))
          => canon1 = CanonicalOf(headerBase)
    /\ (pc \in {"canonOnce", "canonTwice"} /\ headerBase \in {<<"s", "t", "a", "f", "f">>,
                                                            <<"e", "m", "p", "l", "o", "y", "e", "e", " ", "s">>})
          => canon1 = FieldEmployees

\* "Employee(s)" has been canonicalised twice and gave "Employees"
C9_Witness ==
    /\ pc = "canonTwice"
    /\ header = <<"E", "m", "p", "l", "o", "y", "e", "e", "(", "s", ")">>
    /\ canon1 = FieldEmployees
    /\ canon2 = FieldEmployees

\* C7: for every date d, getMonday(d) is a UTC Monday on or before d and at
\* most 6 days before it (a Sunday maps six days back, a Wednesday two, a
\* Monday to itself), also across the start of a month or a year, and the
\* call leaves its argument d as it was.
C7_MondayOnOrBefore ==
    pc = "mondayDone" =>
        /\ getUTCDay(mondayResult) = 1
        /\ mondayResult <= mondayGiven
        /\ DayOf(mondayGiven) - DayOf(mondayResult) = (getUTCDay(mondayGiven) + 6) % 7
        /\ DayOf(mondayGiven) - DayOf(mondayResult) \in 0..6
        /\ mondayArg = mondayGiven

\* a Sunday in the first days of a month has been mapped to its Monday, which
\* lies in the month before
C7_Witness ==
    /\ pc = "mondayDone"
    /\ getUTCDay(mondayGiven) = 0
    /\ getUTCDate(mondayGiven) < 6
    /\ getUTCMonth(mondayResult) # getUTCMonth(mondayGiven)

----------------------------------------------------------------------------
(* Claims about parsePaidHours *)

\* the text holds a number: a digit (every numeral starts with one)
ContainsNumber(s) == \E i \in 1..Len(s) : s[i] \in Digits

\* the text holds a number followed by an hour suffix
ContainsSuffixed(s) == \E i \in 1..Len(s) : SuffixedEnd(s, i) # 0

\* C4: parsePaidHours returns the absent sentinel only when the text holds
\* no number at all: whenever the text holds a number the result is a
\* present value (a text reporting zero hours gives the present value 0).
C4_AbsentOnlyWithoutNumber ==
    (pc = "hoursDone" /\ ContainsNumber(hoursText)) => hoursResult.present

\* C5: whenever the text holds a number followed by an hour suffix, the
\* result is the sum of the suffixed numbers, bare numbers are ignored and
\* the first-bare-number fall back is not taken. Stated on the results that
\* are present, so that it fails only where a bare number decided the
\* result (the zero sum returned as absent is C4's matter).
C5_SuffixedSumIgnoresBare ==
    (pc = "hoursDone" /\ ContainsSuffixed(hoursText) /\ hoursResult.present)
        => hoursResult.v = SumSuffixedFrom(hoursText, 1)

----------------------------------------------------------------------------
(* The run of init: loadCSV, then processData and renderDashboard on the    *)
(* rows it returned                                                         *)

\* row[field]: undefined for a field the row does not have (none of the five
\* fields read is a name Object.prototype defines)
Get(obj, field) ==
    IF \E i \in DOMAIN obj : obj[i].k = field
    THEN obj[CHOOSE i \in DOMAIN obj : obj[i].k = field].v
    ELSE Undefined

\* the rows loadCSV returns, as processData reads them
RowsOf(rows) ==
    [i \in DOMAIN rows |->
        Row(Get(rows[i], FieldDate), Get(rows[i], FieldBookingName),
            Get(rows[i], FieldEmployees), Get(rows[i], FieldCost),
            Get(rows[i], FieldHoursPaidOut))]

\* files of job lines under a header of the five fields, Employees written
\* Staff: lines with a date that parses and one that does not, a line that
\* lacks its last cell and a line with a cell too many
JobsHeader == <<FieldDate, FieldBookingName, Staff, FieldCost, FieldHoursPaidOut>>
JobLines ==
    {<<<<"1", "/", "3", "/", "2", "4">>, <<"A">>, Alice, <<"1", "0", "0">>, <<"2", "H">>>>,
     <<<<"T", "B", "C">>, <<"B">>, Bob, <<"1", "0", "0">>, <<"2", "H">>>>,
     <<<<"8", "/", "3", "/", "2", "4">>, <<"C">>, Alice, <<"5", "0">>>>,
     <<<<"9", "/", "3", "/", "2", "4">>, <<"D">>, Bob, <<"5", "0">>, <<"2", "H">>, <<"x">>>>}
JobFiles == {<<JobsHeader>> \o body : body \in TextsUpTo(JobLines, MaxBody)}

InitRun ==
    \/ InitLoad
    \/ /\ pc = "load"
       /\ \E rows \in JobFiles : file = [fetch |-> "ok", rows |-> rows, tabRows |-> <<>>]
       /\ loaded = <<>>
       /\ HoursIdle /\ MondayIdle /\ CanonIdle /\ ProcessIdle /\ DashboardIdle

\* line 271: if (!rows) return
InitReturn ==
    /\ pc = "loaded"
    /\ ~loaded.ok
    /\ pc' = "returned"
    /\ UNCHANGED <<hoursText, hoursResult, mondayGiven, mondayArg, mondayResult,
                   headerBase, header, canon1, canon2, file, loaded, csvRows, data, hourly,
                   dashboard, perm, permuted>>

\* line 272: const data = processData(rows)
InitProcessData ==
    /\ pc = "loaded"
    /\ loaded.ok
    /\ csvRows' = RowsOf(loaded.rows)
    /\ data' = processData(RowsOf(loaded.rows))
    /\ pc' = "processed"
    /\ UNCHANGED <<hoursText, hoursResult, mondayGiven, mondayArg, mondayResult,
                   headerBase, header, canon1, canon2, file, loaded, hourly,
                   dashboard, perm, permuted>>

\* line 273: renderDashboard(data)
RenderDashboard ==
    /\ pc = "processed"
    /\ dashboard' = renderDashboard(data)
    /\ pc' = "dashboard"
    /\ UNCHANGED <<hoursText, hoursResult, mondayGiven, mondayArg, mondayResult,
                   headerBase, header, canon1, canon2, file, loaded, csvRows, data, hourly,
                   perm, permuted>>

NextRun == LoadCSV \/ InitReturn \/ InitProcessData \/ RenderDashboard

SpecRun == InitRun /\ [][NextRun]_vars

\* loadCSV has returned
Loaded == pc \in {"loaded", "returned", "processed", "dashboard"}

\* the text the banner shows: that of the last call of showWarn
Banner == loaded.warned[Len(loaded.warned)]

\* C11: in every run of init, if the fetch fails (network error or status not
\* ok) or the parse gives no rows after every recovery attempt, a warning is
\* shown and neither processData nor renderDashboard is ever invoked; they
\* are invoked only after loadCSV has returned at least one row.
C11_NoRowsNoDashboard ==
    /\ (Loaded /\ (file.fetch # "ok" \/ loaded.rows = <<>>)) =>
          /\ loaded.warned # <<>>
          /\ Banner \in {WarnFetchFailed, WarnNoRows}
          /\ pc \in {"loaded", "returned"}
          /\ csvRows = <<>> /\ data = <<>> /\ dashboard = <<>>
    /\ pc \in {"processed", "dashboard"} => Loaded /\ loaded.ok /\ Len(loaded.rows) >= 1
    /\ pc = "dashboard" => data # <<>>

\* the file was fetched and held a header line only: the run ended after
\* loadCSV, with the warning that no rows were parsed
C11_Witness ==
    /\ pc = "returned"
    /\ file.fetch = "ok"
    /\ file.rows # <<>>
    /\ loaded.rows = <<>>
    /\ Banner = WarnNoRows
    /\ data = <<>> /\ dashboard = <<>>

----------------------------------------------------------------------------
(* The run of processData and renderDashboard over jobs of several days,    *)
(* weeks and months, and renderDashboard again on the same jobs in another  *)
(* order                                                                    *)

\* the rows the jobs are made of: three days of one week that lie in two
\* months of two years (a Monday, the Wednesday after it, the Sunday that ends
\* the week) and the Monday after, billable jobs and jobs that are not
\* (cancelled, without a cost), employees listed once, twice and not at all
Day30Dec == <<"3", "0", "/", "1", "2", "/", "2", "4">>
Day1Jan == <<"1", "/", "1", "/", "2", "5">>
Day5Jan == <<"5", "/", "1", "/", "2", "0", "2", "5">>
Day6Jan == <<"6", "-", "1", "-", "2", "5">>
CancelledJob == <<"A", " ", "C", "a", "n", "c", "e", "l", "l", "e", "d">>
DashboardRows ==
    <<Row(Day30Dec, <<"A">>, Alice, <<"1", "0", "0">>, <<"2", "H">>),
      Row(Day30Dec, <<"B">>, Bob, <<"1", "0", "0">>, <<"2", "H">>),
      Row(Day1Jan, <<"C">>, Join(<<Alice, Bob>>, <<",", " ">>), <<"5", "0">>, <<"5">>),
      Row(Day1Jan, <<"D">>, Join(<<Alice, Alice>>, <<",">>), <<"1", "0", "0">>, <<"2", "H">>),
      Row(Day5Jan, <<"E">>, Bob, <<"$", "5", "0">>, <<>>),
      Row(Day5Jan, CancelledJob, Alice, <<"1", "0", "0">>, <<"2", "H">>),
      Row(Day1Jan, <<"F">>, Alice, <<"N", "/", "A">>, <<"2", "H">>),
      Row(Day30Dec, <<"G">>, Join(<<Randew, Bob>>, <<",", " ">>), <<"1", "0", "0">>, <<"2", "H">>),
      Row(Day5Jan, <<"H">>, <<>>, <<"1", "0", "0">>, <<"2", "H">>),
      Row(Day6Jan, <<"I">>, Bob, <<"1", "0", "0">>, <<"2", "H">>)>>

\* the orders n jobs can be put in
OrdersOf(n) == {p \in [1..n -> 1..n] : \A i, j \in 1..n : p[i] = p[j] => i = j}

Reordered(list, p) == [i \in DOMAIN list |-> list[p[i]]]

\* up to MaxDashboardJobs of the rows; the order they are first given in is
\* that of DashboardRows, every other order is taken by RenderReordered
InitDashboard ==
    /\ pc = "process"
    /\ \E ks \in TextsUpTo(DOMAIN DashboardRows, MaxDashboardJobs) :
          /\ NonDecreasing(ks)
          /\ csvRows = [i \in DOMAIN ks |-> DashboardRows[ks[i]]]
    /\ data = <<>> /\ hourly = <<>>
    /\ HoursIdle /\ MondayIdle /\ CanonIdle /\ LoadIdle /\ DashboardIdle

\* renderDashboard on the jobs of data in another order
RenderReordered ==
    /\ pc = "dashboard"
    /\ \E p \in OrdersOf(Len(data.rows)) :
          /\ perm' = p
          /\ permuted' = renderDashboard([rows |-> Reordered(data.rows, p),
                                          lastUpdated |-> data.lastUpdated])
    /\ pc' = "reordered"
    /\ UNCHANGED <<hoursText, hoursResult, mondayGiven, mondayArg, mondayResult,
                   headerBase, header, canon1, canon2, file, loaded, csvRows, data, hourly,
                   dashboard>>

NextDashboard == ProcessData \/ RenderDashboard \/ RenderReordered

SpecDashboard == InitDashboard /\ [][NextDashboard]_vars

\* C12: the aggregation results do not depend on the order of the jobs: for
\* any two orders of the same ProcessedJob sequence every aggregate is the
\* same, the content and the order of the ranked lists (busiest days, top
\* employees, hourly performance, per-job performance) included, also when
\* several entries have equal ranking values.
C12_SameInEveryOrder ==
    pc = "reordered" => permuted = dashboard

\* renderDashboard has run on the processed jobs
Rendered == pc \in {"dashboard", "reordered"}

\* the sum, over the billable jobs that list the employee, of the job's
\* employeePayouts entry for the employee (0 without an entry), once per job
PayoutTotal(employee) ==
    LET jobs == data.rows
        sum[i \in 0..Len(jobs)] ==
            IF i = 0 THEN 0
            ELSE sum[i - 1]
                 + (IF jobs[i].isBillable /\ employee \in Range(jobs[i].employees)
                    THEN payoutOrZero(jobs[i], employee)
                    ELSE 0)
    IN sum[Len(jobs)]

\* C13: in renderTopEmployees each employee's total is the sum, over the
\* billable jobs the employee appears on, of that job's employeePayouts entry
\* for the employee (0 when there is none), each job contributing once and
\* non-billable jobs nothing; the list has at most 10 employees, in
\* non-increasing order of total.
C13_TotalsOncePerJob ==
    Rendered =>
        LET top == dashboard.topEmployees IN
        /\ Len(top) <= TopCount
        /\ \A i, j \in DOMAIN top : i < j => top[i].total >= top[j].total
        /\ \A i \in DOMAIN top : top[i].total = PayoutTotal(top[i].key)

----------------------------------------------------------------------------
(* Claims about the errors of the header-based parse *)

\* what the header-based parse loadCSV goes by gave: the first parse, or the
\* tab parse when the first gave no rows and the first line holds a tab
HeaderParse ==
    LET first == ParseWithHeader(file.rows) IN
    IF first.data = <<>> /\ file.tabRows # <<>> THEN ParseWithHeader(file.tabRows) ELSE first

\* the field-count mismatches it reported, of rows with too few fields and of
\* rows with too many
Mismatches ==
    SelectSeq(HeaderParse.errors, LAMBDA e : e.type = "FieldMismatch")

\* C14: whenever the header-based parse reports a field-count mismatch for one
\* or more rows (a row with fewer fields than the header or a row with more),
\* header-based parsing is abandoned and the array recovery path is taken;
\* when it reports none, the recovery path is not taken.
C14_RecoveryOnAnyMismatch ==
    (pc = "loaded" /\ file.fetch = "ok") =>
        (loaded.recovered <=> Mismatches # <<>>)

\* the rows loadCSV returned that lack one of the expected fields
RowsMissingFields ==
    SelectSeq(loaded.rows,
              LAMBDA row : \E i \in DOMAIN expectedFields : ~HasField(row, expectedFields[i]))

\* C15: whenever loadCSV finishes with one or more returned rows that lack an
\* expected field (Date, Booking Name, Employees, Cost, Hours Paid Out), the
\* load is not aborted (the rows are returned and go on to be processed) and
\* the warning shown when the load ends reports the count of such rows, also
\* when the parser reported other errors in the same load.
C15_MissingFieldsCountShown ==
    (Loaded /\ file.fetch = "ok" /\ RowsMissingFields # <<>>) =>
        /\ loaded.ok
        /\ pc # "returned"
        /\ loaded.warned # <<>>
        /\ Banner = WarnMissingFields(Len(RowsMissingFields))

----------------------------------------------------------------------------
(* Claims about the revenue rollups *)

\* the billable jobs, and the sum of value over those of them that are among
\* the jobs picked
BillableJobs == {i \in DOMAIN data.rows : data.rows[i].isBillable}

ValueOver(picked) ==
    LET jobs == data.rows
        sum[i \in 0..Len(jobs)] ==
            IF i = 0 THEN 0
            ELSE sum[i - 1] + (IF i \in BillableJobs \cap picked THEN jobs[i].value ELSE 0)
    IN sum[Len(jobs)]

\* the sum of the buckets of a weekly or monthly rollup, and of the daily one
TotalOf(buckets) ==
    LET sum[i \in 0..Len(buckets)] == IF i = 0 THEN 0 ELSE sum[i - 1] + buckets[i].total
    IN sum[Len(buckets)]

RevenueOf(days) ==
    LET sum[i \in 0..Len(days)] == IF i = 0 THEN 0 ELSE sum[i - 1] + days[i].revenue
    IN sum[Len(days)]

\* the daily buckets of the jobs before the cut to ten
DailyBuckets(jobs) == dailyDataOf(<<>>, billableJobsOf(jobs), 1)

\* no two buckets have one key
DistinctKeys(buckets) ==
    \A i, j \in DOMAIN buckets : buckets[i].key = buckets[j].key => i = j

\* what renderDashboard showed for the jobs, given in this order, conserves
\* the revenue
Conserved(jobs, shown) ==
    LET weekly  == shown.weekly
        monthly == shown.monthly
        daily   == DailyBuckets(jobs)
        total   == ValueOver(DOMAIN data.rows)
    IN
    /\ TotalOf(weekly) = total
    /\ TotalOf(monthly) = total
    /\ RevenueOf(daily) = total
    /\ shown.summary.totalRevenue = total
    /\ Len(daily) <= TopCount => RevenueOf(shown.busiestDays) = total
    /\ DistinctKeys(weekly) /\ DistinctKeys(monthly) /\ DistinctKeys(daily)
    /\ \A i \in BillableJobs :
          /\ \E n \in DOMAIN weekly : weekly[n].key = weekKeyOf(data.rows[i])
          /\ \E n \in DOMAIN monthly : monthly[n].key = monthKeyOf(data.rows[i])
          /\ \E n \in DOMAIN daily : daily[n].key = data.rows[i].dateKey
    /\ \A n \in DOMAIN weekly :
          weekly[n].total = ValueOver({i \in DOMAIN data.rows : weekKeyOf(data.rows[i]) = weekly[n].key})
    /\ \A n \in DOMAIN monthly :
          monthly[n].total = ValueOver({i \in DOMAIN data.rows : monthKeyOf(data.rows[i]) = monthly[n].key})
    /\ \A n \in DOMAIN daily :
          /\ daily[n].revenue = ValueOver({i \in DOMAIN data.rows : data.rows[i].dateKey = daily[n].key})
          /\ daily[n].jobs =
                Cardinality({i \in BillableJobs : data.rows[i].dateKey = daily[n].key})

\* C16: revenue is conserved across the rollups, for the jobs in every order:
\* the weekly buckets, the monthly buckets and the daily buckets (before the
\* cut to ten) each sum to the sum of value over the billable jobs; every
\* billable job falls in exactly one bucket of each rollup, and no job that
\* is not billable contributes to any.
C16_RevenueConserved ==
    /\ Rendered => Conserved(data.rows, dashboard)
    /\ pc = "reordered" => Conserved(Reordered(data.rows, perm), permuted)

\* three jobs of one week were rolled up: two billable ones, of December and
\* of January, in one weekly bucket, two monthly and two daily ones, and a
\* cancelled one in none
C16_Witness ==
    /\ Rendered
    /\ Len(data.rows) = 3
    /\ Cardinality(BillableJobs) = 2
    /\ \E i \in DOMAIN data.rows : data.rows[i].isCancelled /\ data.rows[i].value > 0
    /\ Len(dashboard.weekly) = 1
    /\ Len(dashboard.monthly) = 2
    /\ Len(dashboard.busiestDays) = 2
    /\ dashboard.weekly[1].total = dashboard.monthly[1].total + dashboard.monthly[2].total
    /\ dashboard.monthly[1].total > 0 /\ dashboard.monthly[2].total > 0

====
